---- MODULE Spec2Model ----
(***************************************************************************)
(* Model of the Ella playground execution pipeline.                        *)
(*                                                                         *)
(*   src/src/runner.rs  the worker: Runner::handle_input calling run       *)
(*   src/src/app.rs     the in-page pipeline: handle_run, the zero-delay   *)
(*                      timer and the page's own run                       *)
(*                                                                         *)
(* The parser, resolver, type checker, code generator and VM are external  *)
(* crates.  A source text is represented by what those passes report on    *)
(* it; the VM is represented by the calls it makes to native_println and   *)
(* by the InterpretResult it returns.  A text (a transcript, a diagnostics *)
(* listing) is the sequence of the fragments that format! produced.        *)
(***************************************************************************)
EXTENDS Integers, Sequences, FiniteSets, TLC

\* ------------------------------------------------------------------ bounds
MaxRequests == 3      \* requests handled in one behaviour
MaxSessions == 2      \* Runner instances created in one behaviour
MaxPrints   == 2      \* println calls made by one user chunk
MaxValue    == 2      \* printed values are 1..MaxValue
MaxIds      == 2      \* handler ids are 1..MaxIds
MaxClock    == 1      \* js_clock readings, in milliseconds, are 0..MaxClock

Values     == 1..MaxValue
HandlerIds == 1..MaxIds
Names      == {"x"}
Messages   == {"boom"}
Lines      == {1}

VARIABLES
    \* ---- the worker (runner.rs)
    session,        \* number of the Runner instance in use (Agent::create)
    nreq,           \* requests received so far, all sessions
    session_reqs,   \* requests received by the Runner in use
    bootstraps,     \* bootstrap chunks interpreted on behalf of the Runner in use
    declared,       \* names declared by the successful requests of the Runner in use
    responses,      \* what link.respond was called with during the current handle_input
    \* ---- the heap
    leaked,         \* native_println closures leaked by Box::leak; each holds a buffer
    \* ---- the locals of run (runner.rs and app.rs)
    pc,             \* position: "idle", "bootstrap", "compile", "interpret"
    cur,            \* the request being handled: [id, source, known, prev]
    diags,          \* the diagnostics on the Source of this run
    start,          \* let start = js_clock()
    output,         \* Rc<RefCell<String>>: the output buffer
    refcell,        \* the borrow state of the buffer's RefCell
    rc_strong,      \* strong count of the report_output Rc
    resolve_result, \* symbols in slot order
    vm,             \* [alive, globals]: the Vm of this run
    vm_slots,       \* the symbols of the bootstrap chunk loaded in the Vm, in slot order
    interpreted,    \* the chunks handed to vm.interpret in this run, in order
    boot_result,    \* what vm.interpret returned for the bootstrap chunk
    printed,        \* arguments of the println calls of this run, in call order
    result,         \* what vm.interpret returned for the user chunk
    \* ---- the page (app.rs)
    ui_output,      \* use_state output
    is_loading,     \* use_state is_loading
    is_error,       \* use_state is_error
    timeout_handle, \* TRUE while the zero-delay timer is pending
    reported        \* texts passed to report_errors during the current run

run_vars    == <<pc, cur, diags, start, output, refcell, rc_strong, resolve_result, vm,
                 vm_slots, interpreted, boot_result, printed, result>>
worker_vars == <<session, nreq, session_reqs, bootstraps, declared, responses>>
app_vars    == <<ui_output, is_loading, is_error, timeout_handle, reported>>
vars        == <<session, nreq, session_reqs, bootstraps, declared, responses, leaked,
                 pc, cur, diags, start, output, refcell, rc_strong, resolve_result, vm,
                 vm_slots, interpreted, boot_result, printed, result,
                 ui_output, is_loading, is_error, timeout_handle, reported>>

\* ------------------------------------------------------------- text model
Fragment(tag, msg, a, b) == [tag |-> tag, msg |-> msg, a |-> a, b |-> b]

\* format!("[STDOUT] {}\n", arg)
FormatStdout(arg) == Fragment("STDOUT", "", arg, 0)

\* format!("runtime error: {}\n   --> repl:{}\n", message, line)
FormatRuntimeError(message, line) == Fragment("RTERR", message, line, 0)

\* format!("[INFO] Execution finished in {:.3} seconds\n", end - start):
\* the clock counts milliseconds, {:.3} prints whole seconds and three decimals
FormatInfo(duration) == Fragment("INFO", "", duration \div 1000, duration % 1000)

\* format!("{:?}", result) of an InterpretResult (app.rs)
FormatDebug(r) == Fragment("DEBUG", r.message, r.line, 0)

RECURSIVE SetToSeq(_)
SetToSeq(S) == IF S = {} THEN <<>>
               ELSE LET e == CHOOSE e \in S : TRUE IN <<e>> \o SetToSeq(S \ {e})

Range(s) == {s[i] : i \in 1..Len(s)}

\* ----------------------------------------------------------- the source
\* A source text, by what the passes report on it.
Sources == [parse_error : BOOLEAN, type_error : BOOLEAN,
            decls : SUBSET Names, refs : SUBSET Names]

NoSource  == [parse_error |-> FALSE, type_error |-> FALSE, decls |-> {}, refs |-> {}]
\* known: the names declared by the earlier successful requests of the same
\* Runner, as they were when this request was received;
\* prev: the handler id of the request handled before this one (0: none)
NoRequest == [id |-> 0, source |-> NoSource, known |-> <<>>, prev |-> 0]

Ok == [kind |-> "Ok", message |-> "", line |-> 0]
RuntimeError(message, line) == [kind |-> "RuntimeError", message |-> message, line |-> line]
InterpretResults == {Ok} \cup {RuntimeError(m, l) : m \in Messages, l \in Lines}
NoResult == [kind |-> "None", message |-> "", line |-> 0]

\* BuiltinVars after the five add_native_fn calls, in registration order
BuiltinVars == <<"println", "is_nan", "parse_number", "clock", "str">>

\* Variant: the resolver starts from a table kept by the Runner
ResolverNew_retained == declared

\* Resolver::new(dummy_source): an empty symbol table
ResolverNew == <<>>

\* resolver.resolve_builtin_vars(&builtin_vars); into_resolve_result()
resolve_builtin_vars(table, builtin_vars) == table \o builtin_vars

\* Vm::new(&builtin_vars)
VmNew == [alive |-> TRUE, globals |-> {}]
NoVm  == [alive |-> FALSE, globals |-> {}]

\* resolver.resolve_top_level(&ast): the names the source refers to that are
\* neither in the table it starts from nor declared by the source itself
Unresolved(src, table) == src.refs \ (Range(table) \cup src.decls)

\* Variant: the user-phase resolver is not given the bootstrap result
resolve_top_level_fresh(src, table) == SetToSeq(src.decls)

\* Resolver::new_with_existing_resolve_result(source, resolve_result);
\* resolver.resolve_top_level(&ast): new top-level symbols are appended
resolve_top_level(src, table) == table \o SetToSeq(src.decls \ Range(table))

\* The diagnostics on the Source after parse, resolve and type-check
Diagnostics(src, table) ==
    (IF src.parse_error THEN <<"syntax">> ELSE <<>>)
    \o (IF Unresolved(src, table) # {} THEN <<"unresolved">> ELSE <<>>)
    \o (IF src.type_error THEN <<"type">> ELSE <<>>)

\* Variant: only syntax errors stop the pipeline
has_no_errors_syntax_only(ds) == \A i \in 1..Len(ds) : ds[i] # "syntax"

\* source.has_no_errors()
has_no_errors(ds) == ds = <<>>

\* format!("{}", source): the diagnostics, rendered one after the other
FormatSource(ds) == [i \in 1..Len(ds) |-> Fragment("DIAG", ds[i], 0, 0)]

\* ------------------------------------------------------------ responses
\* self.link.respond(id, RunResult::Stdout(..) | RunResult::Error(..))
respond(id, kind, text) == [id |-> id, kind |-> kind, text |-> text]

\* Variant: the closure answers the requester of the previous request
report_output_stale(id, text) ==
    respond(IF cur.prev # 0 THEN cur.prev ELSE id, "Stdout", text)

\* the report_output closure of handle_input
report_output(id, text) == respond(id, "Stdout", text)

\* the report_errors closure of handle_input
report_errors(id, text) == respond(id, "Error", text)

\* report_output.upgrade()
upgrade == rc_strong > 0

\* Variant: the weak reference is unwrapped and the delivery always made
Flush_unchecked(buf, resp) == Append(resp, report_output(cur.id, buf))

\* if let Some(report_output) = report_output.upgrade() { report_output(output...) }
Flush(buf, resp) == IF upgrade THEN Append(resp, report_output(cur.id, buf)) ELSE resp

\* ------------------------------------------------ the RefCell of output
\* RefCell<String>: the borrows in force, and whether a borrow has panicked
RefCellNew == [mut |-> 0, shared |-> 0, panicked |-> FALSE]

\* output.borrow_mut(): panics when any borrow is in force
borrow_mut(c) ==
    IF c.mut > 0 \/ c.shared > 0 THEN [c EXCEPT !.panicked = TRUE]
    ELSE [c EXCEPT !.mut = 1]

\* output.borrow(): panics when a mutable borrow is in force
borrow(c) ==
    IF c.mut > 0 THEN [c EXCEPT !.panicked = TRUE]
    ELSE [c EXCEPT !.shared = c.shared + 1]

\* the RefMut temporary is dropped
drop_mut(c) == [c EXCEPT !.mut = 0]

\* the Ref temporary is dropped
drop_ref(c) == [c EXCEPT !.shared = IF c.shared > 0 THEN c.shared - 1 ELSE 0]

\* Variant: the RefMut is kept in a local that lives to the end of the block
append_borrows_held(c) == borrow_mut(c)

\* *output.borrow_mut() += &format!(..);  the RefMut lives for the statement
append_borrows(c) == drop_mut(borrow_mut(c))

\* if let Some(report_output) = report_output.upgrade() {
\*     report_output(output.borrow().to_string()) }
\* the Ref lives while the callback runs; the callback does not touch output
deliver_borrows(c) == IF upgrade THEN drop_ref(borrow(c)) ELSE c

\* the borrows of one native_println call
println_borrows(c) == deliver_borrows(append_borrows(c))

\* the borrows of run after vm.interpret has returned r
return_borrows(c, r) ==
    LET c1 == IF r.kind = "RuntimeError" THEN deliver_borrows(append_borrows(c)) ELSE c
    IN  deliver_borrows(append_borrows(c1))

\* ------------------------------------------------- the branches of run
\* Variant: only the new fragment is delivered
println_body_delta(buf, resp, arg) ==
    LET buf1 == Append(buf, FormatStdout(arg))
    IN  [output |-> buf1, responses |-> Flush(<<FormatStdout(arg)>>, resp)]

\* native_println: append "[STDOUT] {arg}\n", then deliver the whole buffer
println_body(buf, resp, arg) ==
    LET buf1 == Append(buf, FormatStdout(arg))
    IN  [output |-> buf1, responses |-> Flush(buf1, resp)]

\* Variant: the runtime error is also handed to report_errors
runtime_error_branch_reporting(buf, resp, r) ==
    IF r.kind = "RuntimeError"
    THEN LET buf1 == Append(buf, FormatRuntimeError(r.message, r.line))
         IN  [output |-> buf1,
              responses |-> Append(Flush(buf1, resp), report_errors(cur.id, buf1))]
    ELSE [output |-> buf, responses |-> resp]

\* Variant: the runtime error text replaces the buffer
runtime_error_branch_replacing(buf, resp, r) ==
    IF r.kind = "RuntimeError"
    THEN LET buf1 == <<FormatRuntimeError(r.message, r.line)>>
         IN  [output |-> buf1, responses |-> Flush(buf1, resp)]
    ELSE [output |-> buf, responses |-> resp]

\* if let InterpretResult::RuntimeError { message, line } = result { .. }
runtime_error_branch(buf, resp, r) ==
    IF r.kind = "RuntimeError"
    THEN LET buf1 == Append(buf, FormatRuntimeError(r.message, r.line))
         IN  [output |-> buf1, responses |-> Flush(buf1, resp)]
    ELSE [output |-> buf, responses |-> resp]

\* Variant: the "[INFO]" line is appended but never delivered
finish_branch_silent(buf, resp, duration) ==
    [output |-> Append(buf, FormatInfo(duration)), responses |-> resp]

\* let end = js_clock(); append the "[INFO]" line; deliver the whole buffer
finish_branch(buf, resp, duration) ==
    LET buf1 == Append(buf, FormatInfo(duration))
    IN  [output |-> buf1, responses |-> Flush(buf1, resp)]

\* Variant: the diagnostics go out through report_output
compile_failed_branch_stdout(resp, ds) == Append(resp, report_output(cur.id, FormatSource(ds)))

\* Variant: one report_errors call per diagnostic
compile_failed_branch_each(resp, ds) ==
    resp \o [i \in 1..Len(ds) |-> report_errors(cur.id, <<FormatSource(ds)[i]>>)]

\* else { report_errors(format!("{}", source)) }
compile_failed_branch(resp, ds) == Append(resp, report_errors(cur.id, FormatSource(ds)))

\* ------------------------------------------------------------ the worker
\* Agent::create: a new Runner; it holds nothing but the link
create ==
    /\ pc = "idle"
    /\ session < MaxSessions
    /\ session' = session + 1
    /\ session_reqs' = 0
    /\ bootstraps' = 0
    /\ declared' = <<>>
    /\ UNCHANGED <<nreq, responses, leaked>>
    /\ UNCHANGED run_vars
    /\ UNCHANGED app_vars

\* Variant: a request that arrives while the Vm runs replaces the one in
\* progress
handle_input_preempting(id, src) ==
    /\ pc \in {"idle", "interpret"}
    /\ nreq < MaxRequests
    /\ leaked < MaxRequests
    /\ nreq' = nreq + 1
    /\ session_reqs' = session_reqs + 1
    /\ cur' = [id |-> id, source |-> src, known |-> declared, prev |-> cur.id]
    /\ responses' = <<>>
    /\ rc_strong' = 1
    /\ \E t \in 0..MaxClock : start' = t
    /\ output' = <<>>
    /\ refcell' = RefCellNew
    /\ leaked' = leaked + 1
    /\ diags' = <<>>
    /\ resolve_result' = resolve_builtin_vars(ResolverNew, BuiltinVars)
    /\ vm' = VmNew
    /\ vm_slots' = <<>>
    /\ interpreted' = <<>>
    /\ boot_result' = NoResult
    /\ printed' = <<>>
    /\ result' = NoResult
    /\ pc' = "bootstrap"
    /\ UNCHANGED <<session, bootstraps, declared>>
    /\ UNCHANGED app_vars

\* Variant: run keeps only the weak reference; the Rc it was given is
\* dropped when it is downgraded
handle_input_weak_only(id, src) ==
    /\ pc = "idle"
    /\ nreq < MaxRequests
    /\ leaked < MaxRequests
    /\ nreq' = nreq + 1
    /\ session_reqs' = session_reqs + 1
    /\ cur' = [id |-> id, source |-> src, known |-> declared, prev |-> cur.id]
    /\ responses' = <<>>
    /\ rc_strong' = 0
    /\ \E t \in 0..MaxClock : start' = t
    /\ output' = <<>>
    /\ refcell' = RefCellNew
    /\ leaked' = leaked + 1
    /\ diags' = <<>>
    /\ resolve_result' = resolve_builtin_vars(ResolverNew, BuiltinVars)
    /\ vm' = VmNew
    /\ vm_slots' = <<>>
    /\ interpreted' = <<>>
    /\ boot_result' = NoResult
    /\ printed' = <<>>
    /\ result' = NoResult
    /\ pc' = "bootstrap"
    /\ UNCHANGED <<session, bootstraps, declared>>
    /\ UNCHANGED app_vars

\* handle_input, up to the point where run is about to interpret the
\* bootstrap chunk: the closures are made, run is entered, the buffer is
\* created and captured by the leaked native_println, the builtins are
\* registered, resolved and type-checked, the Vm is created
handle_input(id, src) ==
    /\ pc = "idle"
    /\ nreq < MaxRequests
    /\ leaked < MaxRequests
    /\ nreq' = nreq + 1
    /\ session_reqs' = session_reqs + 1
    /\ cur' = [id |-> id, source |-> src, known |-> declared, prev |-> cur.id]
    /\ responses' = <<>>
    /\ rc_strong' = 1
    /\ \E t \in 0..MaxClock : start' = t
    /\ output' = <<>>
    /\ refcell' = RefCellNew
    /\ leaked' = leaked + 1
    /\ diags' = <<>>
    /\ resolve_result' = resolve_builtin_vars(ResolverNew, BuiltinVars)
    /\ vm' = VmNew
    /\ vm_slots' = <<>>
    /\ interpreted' = <<>>
    /\ boot_result' = NoResult
    /\ printed' = <<>>
    /\ result' = NoResult
    /\ pc' = "bootstrap"
    /\ UNCHANGED <<session, bootstraps, declared>>
    /\ UNCHANGED app_vars

\* Variant: the bootstrap chunk is interpreted for the first request only
interpret_bootstrap_once ==
    /\ pc = "bootstrap"
    /\ \E r \in InterpretResults :
          /\ vm' = [vm EXCEPT !.globals = Range(BuiltinVars)]
          /\ boot_result' = r
    /\ vm_slots' = resolve_result
    /\ interpreted' = Append(interpreted, "bootstrap")
    /\ bootstraps' = IF bootstraps = 0 THEN 1 ELSE bootstraps
    /\ pc' = "compile"
    /\ UNCHANGED <<session, nreq, session_reqs, declared, responses, leaked>>
    /\ UNCHANGED <<cur, diags, start, output, refcell, rc_strong, resolve_result, printed, result>>
    /\ UNCHANGED app_vars

\* Variant: a bootstrap chunk that does not return Ok ends the run with an
\* Error response
interpret_bootstrap_checked ==
    /\ pc = "bootstrap"
    /\ \E r \in InterpretResults :
          /\ vm' = [vm EXCEPT !.globals = Range(BuiltinVars)]
          /\ boot_result' = r
          /\ responses' = IF r = Ok THEN responses
                          ELSE Append(responses, report_errors(cur.id, <<FormatDebug(r)>>))
    /\ vm_slots' = resolve_result
    /\ interpreted' = Append(interpreted, "bootstrap")
    /\ bootstraps' = bootstraps + 1
    /\ pc' = "compile"
    /\ UNCHANGED <<session, nreq, session_reqs, declared, leaked>>
    /\ UNCHANGED <<cur, diags, start, output, refcell, rc_strong, resolve_result, printed, result>>
    /\ UNCHANGED app_vars

\* vm.interpret(codegen.into_inner_chunk()): the bootstrap chunk, generated
\* from the bootstrap resolve_result, loads the builtins into the Vm; what
\* interpret returns is dropped
interpret_bootstrap ==
    /\ pc = "bootstrap"
    /\ \E r \in InterpretResults :
          /\ vm' = [vm EXCEPT !.globals = Range(BuiltinVars)]
          /\ boot_result' = r
    /\ vm_slots' = resolve_result
    /\ interpreted' = Append(interpreted, "bootstrap")
    /\ bootstraps' = bootstraps + 1
    /\ pc' = "compile"
    /\ UNCHANGED <<session, nreq, session_reqs, declared, responses, leaked>>
    /\ UNCHANGED <<cur, diags, start, output, refcell, rc_strong, resolve_result, printed, result>>
    /\ UNCHANGED app_vars

\* parse, resolve, type-check; then the test of source.has_no_errors():
\* either the user chunk is generated and handed to vm.interpret, or
\* report_errors is called and run returns
compile ==
    /\ pc = "compile"
    /\ LET ds == Diagnostics(cur.source, resolve_result)
       IN  /\ diags' = ds
           /\ resolve_result' = resolve_top_level(cur.source, resolve_result)
           /\ IF has_no_errors(ds)
              THEN /\ pc' = "interpret"
                   /\ interpreted' = Append(interpreted, "user")
                   /\ UNCHANGED <<responses, rc_strong, vm>>
              ELSE /\ responses' = compile_failed_branch(responses, ds)
                   /\ pc' = "idle"
                   /\ rc_strong' = 0
                   /\ vm' = NoVm
                   /\ UNCHANGED interpreted
    /\ UNCHANGED <<session, nreq, session_reqs, bootstraps, declared, leaked>>
    /\ UNCHANGED <<cur, start, output, refcell, vm_slots, boot_result, printed, result>>
    /\ UNCHANGED app_vars

\* the Vm calls native_println while it interprets the user chunk
native_println(arg) ==
    /\ pc = "interpret"
    /\ Len(printed) < MaxPrints
    /\ LET st == println_body(output, responses, arg)
       IN  /\ output' = st.output
           /\ responses' = st.responses
    /\ refcell' = println_borrows(refcell)
    /\ printed' = Append(printed, arg)
    /\ UNCHANGED <<session, nreq, session_reqs, bootstraps, declared, leaked>>
    /\ UNCHANGED <<pc, cur, diags, start, rc_strong, resolve_result, vm, result>>
    /\ UNCHANGED <<vm_slots, interpreted, boot_result>>
    /\ UNCHANGED app_vars

\* Variant: a runtime error ends run before the "[INFO]" line
interpret_return_short(r) ==
    /\ pc = "interpret"
    /\ result' = r
    /\ \E end \in start..MaxClock :
          LET st1 == runtime_error_branch(output, responses, r)
              st2 == IF r = Ok
                     THEN finish_branch(st1.output, st1.responses, end - start)
                     ELSE st1
          IN  /\ output' = st2.output
              /\ responses' = st2.responses
    /\ refcell' = return_borrows(refcell, r)
    /\ declared' = IF r.kind = "Ok"
                   THEN declared \o SetToSeq(cur.source.decls \ Range(declared))
                   ELSE declared
    /\ pc' = "idle"
    /\ rc_strong' = 0
    /\ vm' = NoVm
    /\ UNCHANGED <<session, nreq, session_reqs, bootstraps, leaked>>
    /\ UNCHANGED <<cur, diags, start, resolve_result, printed>>
    /\ UNCHANGED <<vm_slots, interpreted, boot_result>>
    /\ UNCHANGED app_vars

\* vm.interpret(chunk) returns r; the rest of run, and the return of
\* handle_input that drops the Vm and the report_output Rc
interpret_return(r) ==
    /\ pc = "interpret"
    /\ result' = r
    /\ \E end \in start..MaxClock :
          LET st1 == runtime_error_branch(output, responses, r)
              st2 == finish_branch(st1.output, st1.responses, end - start)
          IN  /\ output' = st2.output
              /\ responses' = st2.responses
    /\ refcell' = return_borrows(refcell, r)
    /\ declared' = IF r.kind = "Ok"
                   THEN declared \o SetToSeq(cur.source.decls \ Range(declared))
                   ELSE declared
    /\ pc' = "idle"
    /\ rc_strong' = 0
    /\ vm' = NoVm
    /\ UNCHANGED <<session, nreq, session_reqs, bootstraps, leaked>>
    /\ UNCHANGED <<cur, diags, start, resolve_result, printed>>
    /\ UNCHANGED <<vm_slots, interpreted, boot_result>>
    /\ UNCHANGED app_vars

Init ==
    /\ session = 1
    /\ nreq = 0
    /\ session_reqs = 0
    /\ bootstraps = 0
    /\ declared = <<>>
    /\ responses = <<>>
    /\ leaked = 0
    /\ pc = "idle"
    /\ cur = NoRequest
    /\ diags = <<>>
    /\ start = 0
    /\ output = <<>>
    /\ refcell = RefCellNew
    /\ rc_strong = 0
    /\ resolve_result = <<>>
    /\ vm = NoVm
    /\ vm_slots = <<>>
    /\ interpreted = <<>>
    /\ boot_result = NoResult
    /\ printed = <<>>
    /\ result = NoResult
    /\ ui_output = <<>>
    /\ is_loading = FALSE
    /\ is_error = FALSE
    /\ timeout_handle = FALSE
    /\ reported = <<>>

Next ==
    \/ create
    \/ \E id \in HandlerIds, src \in Sources : handle_input(id, src)
    \/ interpret_bootstrap
    \/ compile
    \/ \E arg \in Values : native_println(arg)
    \/ \E r \in InterpretResults : interpret_return(r)

Spec == Init /\ [][Next]_vars

\* --------------------------------------------------------------- the page
\* The page's state as the setters leave it: [output, is_error]
Ui == [output |-> ui_output, is_error |-> is_error]

\* report_output of app(): set_output(new_output.to_string())
app_report_output(ui, text) == [ui EXCEPT !.output = text]

\* report_errors of app(): set_output(errors_string); set_is_error(true)
app_report_errors(ui, text) == [output |-> text, is_error |-> TRUE]

\* if let Some(report_output) = report_output.upgrade() { report_output(..) }
app_flush(buf, ui) == IF upgrade THEN app_report_output(ui, buf) ELSE ui

\* the page's native_println
app_println_body(buf, ui, arg) ==
    LET buf1 == Append(buf, FormatStdout(arg))
    IN  [output |-> buf1, ui |-> app_flush(buf1, ui)]

\* if result != InterpretResult::Ok { report_errors(format!("{:?}", result)) }
app_runtime_error_branch(ui, r) ==
    IF r # Ok THEN app_report_errors(ui, <<FormatDebug(r)>>) ELSE ui

\* the texts handed to report_errors by that branch
app_runtime_error_reported(r) == IF r # Ok THEN <<<<FormatDebug(r)>>>> ELSE <<>>

\* let end = js_clock(); append the "[INFO]" line; deliver the whole buffer
app_finish_branch(buf, ui, duration) ==
    LET buf1 == Append(buf, FormatInfo(duration))
    IN  [output |-> buf1, ui |-> app_flush(buf1, ui)]

\* The page has no type checker: parse and resolve only
app_Diagnostics(src, table) ==
    (IF src.parse_error THEN <<"syntax">> ELSE <<>>)
    \o (IF Unresolved(src, table) # {} THEN <<"unresolved">> ELSE <<>>)

\* the borrows of the page's run after vm.interpret has returned: the
\* runtime error branch does not touch the buffer
app_return_borrows(c) == deliver_borrows(append_borrows(c))

\* Variant: is_error is left as the previous run set it
handle_run_keeping_error(src) ==
    /\ ~is_loading
    /\ pc = "idle"
    /\ leaked < MaxRequests
    /\ ui_output' = <<>>
    /\ is_loading' = TRUE
    /\ is_error' = is_error
    /\ timeout_handle' = TRUE
    /\ cur' = [id |-> 0, source |-> src, known |-> <<>>, prev |-> 0]
    /\ rc_strong' = 2
    /\ reported' = <<>>
    /\ diags' = <<>>
    /\ output' = <<>>
    /\ printed' = <<>>
    /\ result' = NoResult
    /\ interpreted' = <<>>
    /\ boot_result' = NoResult
    /\ vm_slots' = <<>>
    /\ UNCHANGED <<pc, start, resolve_result, vm, refcell, leaked>>
    /\ UNCHANGED worker_vars

\* handle_run: the click on Run (the button is disabled while is_loading)
handle_run(src) ==
    /\ ~is_loading
    /\ pc = "idle"
    /\ leaked < MaxRequests
    /\ ui_output' = <<>>
    /\ is_loading' = TRUE
    /\ is_error' = FALSE
    /\ timeout_handle' = TRUE
    /\ cur' = [id |-> 0, source |-> src, known |-> <<>>, prev |-> 0]
    /\ rc_strong' = 2
    /\ reported' = <<>>
    /\ diags' = <<>>
    /\ output' = <<>>
    /\ printed' = <<>>
    /\ result' = NoResult
    /\ interpreted' = <<>>
    /\ boot_result' = NoResult
    /\ vm_slots' = <<>>
    /\ UNCHANGED <<pc, start, resolve_result, vm, refcell, leaked>>
    /\ UNCHANGED worker_vars

\* the zero-delay timer fires: run is entered and gets as far as the
\* interpretation of the bootstrap chunk
app_timeout ==
    /\ timeout_handle
    /\ pc = "idle"
    /\ timeout_handle' = FALSE
    /\ rc_strong' = rc_strong + 1
    /\ \E t \in 0..MaxClock : start' = t
    /\ output' = <<>>
    /\ refcell' = RefCellNew
    /\ leaked' = leaked + 1
    /\ resolve_result' = resolve_builtin_vars(ResolverNew, <<"println", "clock">>)
    /\ vm' = VmNew
    /\ pc' = "bootstrap"
    /\ UNCHANGED <<cur, diags, printed, result, vm_slots, interpreted, boot_result>>
    /\ UNCHANGED <<ui_output, is_loading, is_error, reported>>
    /\ UNCHANGED worker_vars

\* vm.interpret(codegen.into_inner_chunk()); the result is dropped
app_interpret_bootstrap ==
    /\ pc = "bootstrap"
    /\ \E r \in InterpretResults :
          /\ vm' = [vm EXCEPT !.globals = {"println", "clock"}]
          /\ boot_result' = r
    /\ vm_slots' = resolve_result
    /\ interpreted' = Append(interpreted, "bootstrap")
    /\ pc' = "compile"
    /\ UNCHANGED <<cur, diags, start, output, refcell, rc_strong, resolve_result, printed, result>>
    /\ UNCHANGED leaked
    /\ UNCHANGED app_vars
    /\ UNCHANGED worker_vars

\* parse and resolve, then the test of source.has_no_errors(); on a
\* diagnostic report_errors is called, run returns and the timer callback
\* calls set_is_loading(false)
app_compile ==
    /\ pc = "compile"
    /\ LET ds == app_Diagnostics(cur.source, resolve_result)
       IN  /\ diags' = ds
           /\ resolve_result' = resolve_top_level(cur.source, resolve_result)
           /\ IF has_no_errors(ds)
              THEN /\ pc' = "interpret"
                   /\ interpreted' = Append(interpreted, "user")
                   /\ UNCHANGED <<rc_strong, vm>>
                   /\ UNCHANGED <<ui_output, is_loading, is_error, reported>>
              ELSE LET ui == app_report_errors(Ui, FormatSource(ds))
                   IN  /\ ui_output' = ui.output
                       /\ is_error' = ui.is_error
                       /\ reported' = Append(reported, FormatSource(ds))
                       /\ is_loading' = FALSE
                       /\ pc' = "idle"
                       /\ rc_strong' = rc_strong - 1
                       /\ vm' = NoVm
                       /\ UNCHANGED interpreted
    /\ UNCHANGED <<cur, start, output, refcell, printed, result, timeout_handle>>
    /\ UNCHANGED <<vm_slots, boot_result, leaked>>
    /\ UNCHANGED worker_vars

\* the Vm calls the page's native_println
app_native_println(arg) ==
    /\ pc = "interpret"
    /\ Len(printed) < MaxPrints
    /\ LET st == app_println_body(output, Ui, arg)
       IN  /\ output' = st.output
           /\ ui_output' = st.ui.output
           /\ is_error' = st.ui.is_error
    /\ refcell' = println_borrows(refcell)
    /\ printed' = Append(printed, arg)
    /\ UNCHANGED <<pc, cur, diags, start, rc_strong, resolve_result, vm, result>>
    /\ UNCHANGED <<vm_slots, interpreted, boot_result, leaked>>
    /\ UNCHANGED <<is_loading, timeout_handle, reported>>
    /\ UNCHANGED worker_vars

\* vm.interpret(chunk) returns r; the rest of run; then the timer callback
\* calls set_is_loading(false)
app_interpret_return(r) ==
    /\ pc = "interpret"
    /\ result' = r
    /\ \E end \in start..MaxClock :
          LET ui1 == app_runtime_error_branch(Ui, r)
              st2 == app_finish_branch(output, ui1, end - start)
          IN  /\ output' = st2.output
              /\ ui_output' = st2.ui.output
              /\ is_error' = st2.ui.is_error
    /\ refcell' = app_return_borrows(refcell)
    /\ reported' = reported \o app_runtime_error_reported(r)
    /\ is_loading' = FALSE
    /\ pc' = "idle"
    /\ rc_strong' = rc_strong - 1
    /\ vm' = NoVm
    /\ UNCHANGED <<cur, diags, start, resolve_result, printed, timeout_handle>>
    /\ UNCHANGED <<vm_slots, interpreted, boot_result, leaked>>
    /\ UNCHANGED worker_vars

AppNext ==
    \/ \E src \in Sources : handle_run(src)
    \/ app_timeout
    \/ app_interpret_bootstrap
    \/ app_compile
    \/ \E arg \in Values : app_native_println(arg)
    \/ \E r \in InterpretResults : app_interpret_return(r)

AppSpec == Init /\ [][AppNext]_vars

\* ------------------------------------------- the worker, owner disposed
\* Every strong reference to the report_output closure is dropped while the
\* Vm interprets the user chunk
dispose_owner ==
    /\ pc = "interpret"
    /\ rc_strong > 0
    /\ rc_strong' = 0
    /\ UNCHANGED <<pc, cur, diags, start, output, refcell, resolve_result, vm,
                   vm_slots, interpreted, boot_result, printed, result>>
    /\ UNCHANGED worker_vars
    /\ UNCHANGED leaked
    /\ UNCHANGED app_vars

DisposalNext ==
    \/ Next
    \/ dispose_owner

DisposalSpec == Init /\ [][DisposalNext]_vars

\* ------------------------------------------------------ both pipelines
\* The page of app.rs does not use the worker: it calls its own run.  A
\* behaviour of the repository is a behaviour of the worker (no click on
\* the page has happened) or one of the page (the worker has done nothing).
WorkerOnly == ~is_loading /\ leaked = nreq
PageOnly   == nreq = 0 /\ session = 1

PipelineNext ==
    \/ (WorkerOnly /\ Next)
    \/ (PageOnly /\ AppNext)

PipelineSpec == Init /\ [][PipelineNext]_vars

\* ------------------------------------------------------------- fairness
\* handle_input runs to completion: once run is entered every step of it is
\* taken, and vm.interpret is assumed to return
Fairness ==
    /\ WF_vars(interpret_bootstrap)
    /\ WF_vars(compile)
    /\ WF_vars(\E r \in InterpretResults : interpret_return(r))

FairSpec == Init /\ [][Next]_vars /\ Fairness

\* the browser fires the zero-delay timer, and the timer callback runs to
\* completion
AppFairness ==
    /\ WF_vars(app_timeout)
    /\ WF_vars(app_interpret_bootstrap)
    /\ WF_vars(app_compile)
    /\ WF_vars(\E r \in InterpretResults : app_interpret_return(r))

AppFairSpec == Init /\ [][AppNext]_vars /\ AppFairness

\* ================================================================ claims
IsPrefix(s, t) == Len(s) <= Len(t) /\ SubSeq(t, 1, Len(s)) = s
IsProperPrefix(s, t) == Len(s) < Len(t) /\ SubSeq(t, 1, Len(s)) = s

\* needle occurs in hay as a run of consecutive fragments
Contains(hay, needle) ==
    \E i \in 0..(Len(hay) - Len(needle)) : SubSeq(hay, i + 1, i + Len(needle)) = needle

CountKind(resp, k) == Cardinality({i \in 1..Len(resp) : resp[i].kind = k})

\* the "[STDOUT] ..." lines of the println calls, in call order
StdoutLines(vals) == [i \in 1..Len(vals) |-> FormatStdout(vals[i])]

\* handle_input has returned for the request in cur
Returned == pc = "idle" /\ cur # NoRequest

\* the page's run has returned and set_is_loading(false) was called
AppReturned == pc = "idle" /\ cur # NoRequest /\ ~is_loading

\* C1: a request whose source has a parse or type error, or whose Source
\* holds any diagnostic after the user phase, never gets a Stdout response,
\* and once handled it has got exactly one Error response, whose text is
\* the formatted diagnostics of its source.
C1_CompileErrorOneError ==
    LET failing == cur.source.parse_error \/ cur.source.type_error \/ diags # <<>>
    IN  /\ failing => CountKind(responses, "Stdout") = 0
        /\ (failing /\ Returned) =>
              /\ diags # <<>>
              /\ responses = <<respond(cur.id, "Error", FormatSource(diags))>>
              /\ Len(responses[1].text) = Len(diags)
        /\ diags # <<>> => Returned

C1_Witness ==
    /\ Returned
    /\ cur.source.type_error
    /\ cur.source.parse_error
    /\ Len(responses) = 1
    /\ responses[1].kind = "Error"
    /\ Len(responses[1].text) = 2

\* C2 as stated: a request that has no parse or type error and refers only
\* to names it declares itself or that earlier successful requests of the
\* same Runner declared gets no Error response; a name declared only under
\* another Runner is not seen.
C2_DeclarationsPersist ==
    /\ (/\ Returned
        /\ ~cur.source.parse_error
        /\ ~cur.source.type_error
        /\ cur.source.refs \subseteq (Range(cur.known) \cup cur.source.decls))
       => CountKind(responses, "Error") = 0
    /\ (/\ Returned
        /\ ~(cur.source.refs \subseteq (Range(cur.known) \cup cur.source.decls)))
       => CountKind(responses, "Error") = 1

\* C2 amended: a declaration made by one request is visible to no later
\* request.  A request that refers to a name it does not declare itself
\* gets exactly one Error response (with the resolve diagnostic) and no
\* Stdout response, whether or not an earlier successful request of the
\* same Runner declared that name.
C2_NoDeclarationSurvives ==
    (Returned /\ ~(cur.source.refs \subseteq cur.source.decls)) =>
        /\ \E i \in 1..Len(diags) : diags[i] = "unresolved"
        /\ CountKind(responses, "Error") = 1
        /\ CountKind(responses, "Stdout") = 0

C2_Witness ==
    /\ Returned
    /\ cur.source.refs = {"x"}
    /\ cur.source.decls = {}
    /\ "x" \in Range(cur.known)
    /\ "x" \in Range(declared)
    /\ ~cur.source.parse_error
    /\ ~cur.source.type_error
    /\ CountKind(responses, "Error") = 1

\* C3 as stated: whatever the number of requests a Runner has handled, the
\* bootstrap was performed exactly once for it.
C3_BootstrapOnce ==
    /\ bootstraps <= 1
    /\ (session_reqs >= 1 /\ pc # "bootstrap") => bootstraps = 1

\* C3 amended: the bootstrap is performed once per request: after n
\* requests a Runner has had n bootstrap chunks interpreted.
C3_BootstrapPerRequest ==
    bootstraps = session_reqs - (IF pc = "bootstrap" THEN 1 ELSE 0)

C3_Witness ==
    /\ Returned
    /\ session_reqs >= 2
    /\ bootstraps = session_reqs

\* C4 as stated: after a RuntimeError the request has got exactly one Error
\* response, and it is the last response.
C4_RuntimeErrorResponse ==
    (Returned /\ result.kind = "RuntimeError") =>
        /\ CountKind(responses, "Error") = 1
        /\ responses[Len(responses)].kind = "Error"

\* C4 amended: after a RuntimeError the request has got no Error response;
\* the runtime error is reported in the transcript only, and the last
\* response is the Stdout response of the final "[INFO]" flush.
C4_RuntimeErrorNoErrorResponse ==
    (Returned /\ result.kind = "RuntimeError") =>
        /\ CountKind(responses, "Error") = 0
        /\ Len(responses) = Len(printed) + 2
        /\ responses[Len(responses)].kind = "Stdout"
        /\ responses[Len(responses)].text[Len(responses[Len(responses)].text)].tag = "INFO"

C4_Witness ==
    /\ Returned
    /\ result.kind = "RuntimeError"
    /\ Len(printed) = 1
    /\ Len(responses) = 3
    /\ CountKind(responses, "Error") = 0

\* C5: after a RuntimeError{message, line} the buffer holds the "[STDOUT]"
\* lines of the run, unchanged and in call order, followed by the runtime
\* error text, and that transcript was delivered as a Stdout response.
C5_RuntimeErrorTranscript ==
    (Returned /\ result.kind = "RuntimeError") =>
        LET t == StdoutLines(printed) \o <<FormatRuntimeError(result.message, result.line)>>
        IN  /\ IsPrefix(t, output)
            /\ \E i \in 1..Len(responses) :
                  /\ responses[i].kind = "Stdout"
                  /\ responses[i].id = cur.id
                  /\ responses[i].text = t

C5_Witness ==
    /\ Returned
    /\ result.kind = "RuntimeError"
    /\ printed = <<2, 1>>
    /\ \E i \in 1..Len(responses) :
          /\ Len(responses[i].text) = 3
          /\ responses[i].text[3].tag = "RTERR"

\* C6: a request gets at most one Error response, and nothing is emitted
\* for it after the Error response: an Error response is the last one and
\* handle_input has returned.
C6_ErrorTerminal ==
    /\ CountKind(responses, "Error") <= 1
    /\ \A i \in 1..Len(responses) :
          responses[i].kind = "Error" => (i = Len(responses) /\ pc = "idle")

C6_Witness ==
    /\ Returned
    /\ Len(diags) = 3
    /\ CountKind(responses, "Error") = 1

\* C7: in the page, when run has returned after calling report_errors (a
\* compile error or a runtime error), is_error is true and the output
\* shown contains every text that was passed to report_errors.
C7_ErrorShown ==
    (AppReturned /\ reported # <<>>) =>
        /\ is_error
        /\ \A i \in 1..Len(reported) : Contains(ui_output, reported[i])

\* C8: a Stdout response carries the whole buffer as it is when it is
\* delivered, and within one request every Stdout payload has each earlier
\* Stdout payload of the request as a proper prefix.
C8_StdoutFullTranscript ==
    \A i \in 1..Len(responses) :
        responses[i].kind = "Stdout" =>
            /\ (i = Len(responses) => responses[i].text = output)
            /\ \A j \in 1..(i - 1) :
                  responses[j].kind = "Stdout" =>
                      IsProperPrefix(responses[j].text, responses[i].text)

C8_Witness ==
    /\ pc = "interpret"
    /\ Len(printed) = 2
    /\ Len(responses) = 2
    /\ IsProperPrefix(responses[1].text, responses[2].text)

\* C9: a request that compiles and whose interpretation returns Ok after k
\* println calls has got k+1 Stdout responses and no Error response; the
\* last one is the k "[STDOUT]" lines in call order followed by one
\* "[INFO]" line, which is the final line.
C9_SuccessTranscript ==
    (Returned /\ result = Ok) =>
        LET k == Len(printed)
            last == responses[Len(responses)]
        IN  /\ CountKind(responses, "Stdout") = k + 1
            /\ CountKind(responses, "Error") = 0
            /\ last.kind = "Stdout"
            /\ Len(last.text) = k + 1
            /\ SubSeq(last.text, 1, k) = StdoutLines(printed)
            /\ last.text[k + 1].tag = "INFO"
            /\ last.text[k + 1].b \in 0..999

C9_Witness ==
    /\ Returned
    /\ result = Ok
    /\ printed = <<1, 2>>
    /\ Len(responses) = 3

\* C10: every response produced while a request is handled is sent to the
\* handler id of that request; the requester of the request handled before
\* it, when it has another id, gets none of them.
C10_ResponsesRouted ==
    \A i \in 1..Len(responses) :
        /\ responses[i].id = cur.id
        /\ (cur.prev # cur.id => responses[i].id # cur.prev)

C10_Witness ==
    /\ Returned
    /\ cur.prev # 0
    /\ cur.prev # cur.id
    /\ Len(responses) >= 2
    /\ \A i \in 1..Len(responses) : responses[i].id = cur.id

\* the state of the request in cur, in the terms of the request state machine
Phase ==
    IF pc = "bootstrap" THEN "Received"
    ELSE IF pc = "compile" THEN "Compiling"
    ELSE IF pc = "interpret" THEN "Executing"
    ELSE IF cur = NoRequest THEN "None"
    ELSE IF diags # <<>> THEN "CompileFailed"
    ELSE "Completed"

InProgress == {"Received", "Compiling", "Executing"}
Terminal   == {"Completed", "CompileFailed"}

PhaseSteps ==
    {<<"Received", "Compiling">>, <<"Compiling", "Executing">>,
     <<"Compiling", "CompileFailed">>, <<"Executing", "Executing">>,
     <<"Executing", "Completed">>}
    \cup {<<p, "Received">> : p \in Terminal \cup {"None"}}
    \cup {<<p, p>> : p \in Terminal \cup {"None"}}

\* C11: a request goes Received -> Compiling -> (Executing -> Completed) |
\* CompileFailed and takes no other transition; while it is in progress no
\* other request is taken up and the responses emitted are added to its
\* own; under the fairness of run-to-completion every request in progress
\* reaches Completed or CompileFailed.
C11_RequestStateMachine ==
    /\ [][/\ <<Phase, Phase'>> \in PhaseSteps
          /\ Phase \in InProgress =>
                /\ cur' = cur
                /\ nreq' = nreq
                /\ IsPrefix(responses, responses')]_vars
    /\ ((Phase \in InProgress) ~> (Phase \in Terminal))

C11_Witness ==
    /\ Phase = "Completed"
    /\ nreq = 2
    /\ cur.prev # 0
    /\ Len(printed) = 1
    /\ Len(responses) = 2

\* C12: when the Source holds a diagnostic after the user phase, run has
\* returned without generating or interpreting a user chunk: the bootstrap
\* chunk is the only chunk the Vm interpreted for the request, println was
\* never called and the buffer is empty.
C12_NoExecutionAfterDiagnostic ==
    diags # <<>> =>
        /\ pc = "idle"
        /\ interpreted = <<"bootstrap">>
        /\ printed = <<>>
        /\ output = <<>>
        /\ result = NoResult

C12_Witness ==
    /\ cur.id # 0
    /\ diags = <<"type">>
    /\ pc = "idle"
    /\ interpreted = <<"bootstrap">>
    /\ printed = <<>>

RetainedBuffers == leaked

\* C14: the buffer of a run starts empty and holds nothing of an earlier
\* run, and once run has returned nothing holds a buffer any more.
C14_BufferDiscarded ==
    /\ pc = "bootstrap" => output = <<>>
    /\ \A i \in 1..Len(output) :
          output[i].tag = "STDOUT" => (i <= Len(printed) /\ output[i].a = printed[i])
    /\ pc = "idle" => RetainedBuffers = 0

\* C15: the bootstrap chunk is the first chunk the Vm interprets in a run
\* and the only one before the user phase; the user source is untouched
\* until then; whatever interpret returned for it, nothing has been
\* reported when the user phase begins, and a request without diagnostics
\* gets no Error response.
C15_BootstrapFirstAndSilent ==
    /\ \A i \in 1..Len(interpreted) :
          interpreted[i] = (IF i = 1 THEN "bootstrap" ELSE "user")
    /\ pc = "bootstrap" => (interpreted = <<>> /\ diags = <<>>)
    /\ pc = "compile" =>
          /\ interpreted = <<"bootstrap">>
          /\ boot_result \in InterpretResults
          /\ diags = <<>>
          /\ resolve_result = vm_slots
          /\ responses = <<>>
          /\ output = <<>>
          /\ ui_output = <<>>
          /\ ~is_error
          /\ reported = <<>>
    /\ (Returned /\ cur.id # 0 /\ diags = <<>>) => CountKind(responses, "Error") = 0

C15_Witness ==
    /\ pc = "compile"
    /\ cur.id # 0
    /\ boot_result.kind = "RuntimeError"
    /\ responses = <<>>

\* the slots a name has in a symbol table
SlotsOf(table, name) == {i \in 1..Len(table) : table[i] = name}

\* C16: the table the user phase ends with extends the table the bootstrap
\* chunk was generated from: every symbol loaded into the Vm by the
\* bootstrap chunk, the builtins, has the same single slot in both.
C16_BuiltinSlotsStable ==
    vm_slots # <<>> =>
        /\ IsPrefix(vm_slots, resolve_result)
        /\ "println" \in Range(vm_slots)
        /\ cur.id # 0 => vm_slots = BuiltinVars
        /\ \A n \in Range(vm_slots) :
              /\ SlotsOf(resolve_result, n) = SlotsOf(vm_slots, n)
              /\ Cardinality(SlotsOf(resolve_result, n)) = 1

C16_Witness ==
    /\ pc = "interpret"
    /\ cur.id # 0
    /\ vm_slots = BuiltinVars
    /\ resolve_result = BuiltinVars \o <<"x">>

\* C17: a click on Run only clears the output, sets is_loading, clears
\* is_error and leaves the timer pending; run is entered only by the step
\* that fires the timer; is_loading goes back to false only by the step in
\* which run returns; and is_loading always becomes false again.
C17_RunDeferred ==
    /\ [][/\ (~is_loading /\ is_loading') =>
                /\ pc = "idle" /\ pc' = "idle"
                /\ ui_output' = <<>>
                /\ ~is_error'
                /\ timeout_handle'
          /\ (pc = "idle" /\ pc' # "idle") =>
                /\ timeout_handle /\ ~timeout_handle'
                /\ is_loading /\ is_loading'
          /\ (is_loading /\ ~is_loading') =>
                /\ pc \in {"compile", "interpret"}
                /\ pc' = "idle"]_vars
    /\ (is_loading ~> ~is_loading)

C17_Witness ==
    /\ AppReturned
    /\ leaked = 2
    /\ result = Ok
    /\ ~is_error
    /\ Len(ui_output) = 2

\* C18: a run that compiles and ends in a runtime error still gets the
\* "[INFO]" line appended and delivered last.  In the worker the last
\* response is the Stdout of the "[STDOUT]" lines, the runtime-error text
\* and one "[INFO]" line; in the page the output shown is the "[STDOUT]"
\* lines and one "[INFO]" line.
C18_InfoAfterRuntimeError ==
    (pc = "idle" /\ result.kind = "RuntimeError") =>
        LET k == Len(printed)
        IN  /\ output[Len(output)].tag = "INFO"
            /\ Cardinality({i \in 1..Len(output) : output[i].tag = "INFO"}) = 1
            /\ cur.id # 0 =>
                  /\ responses[Len(responses)] = respond(cur.id, "Stdout", output)
                  /\ Len(output) = k + 2
                  /\ SubSeq(output, 1, k + 1) =
                        StdoutLines(printed) \o <<FormatRuntimeError(result.message, result.line)>>
            /\ cur.id = 0 =>
                  /\ ui_output = output
                  /\ Len(output) = k + 1
                  /\ SubSeq(output, 1, k) = StdoutLines(printed)

C18_Witness ==
    /\ Returned
    /\ cur.id # 0
    /\ result.kind = "RuntimeError"
    /\ Len(printed) = 1
    /\ Len(responses[Len(responses)].text) = 3
    /\ responses[Len(responses)].text[3].tag = "INFO"

\* C19: from the entry of run to its return the weak reference upgrades:
\* every println call and every flush has made its delivery.
C19_CallbackAliveDuringRun ==
    /\ pc # "idle" => upgrade
    /\ (pc = "interpret" /\ cur.id # 0) => Len(responses) = Len(printed)
    /\ (pc = "interpret" /\ cur.id = 0 /\ printed # <<>>) => ui_output = output
    /\ (pc = "idle" /\ result # NoResult /\ cur.id # 0) =>
          /\ Len(responses) = Len(output)
          /\ responses[Len(responses)].text = output
    /\ (pc = "idle" /\ result # NoResult /\ cur.id = 0) => ui_output = output

C19_Witness ==
    /\ pc = "interpret"
    /\ cur.id # 0
    /\ rc_strong = 1
    /\ Len(printed) = 2
    /\ Len(responses) = 2

\* C20: no borrow of the buffer's RefCell ever conflicts with a borrow in
\* force, and between the steps of a run no borrow is in force: the
\* mutable borrow of an append is released before the shared borrow of the
\* delivery is taken, and that one before the next append.
C20_NoBorrowConflict ==
    /\ ~refcell.panicked
    /\ refcell.mut = 0
    /\ refcell.shared = 0

C20_Witness ==
    /\ pc = "idle"
    /\ result.kind = "RuntimeError"
    /\ Len(printed) = 2
    /\ Len(output) = 4
    /\ ~refcell.panicked

====
